---- MODULE Spec2Model ----
(***************************************************************************)
(* Model of <exmg-paper-tooltip> (src/exmg-paper-tooltip.js): one tooltip  *)
(* element, the DOM nodes it can be anchored to, the listeners it has      *)
(* registered, its visibility flag, the hidden class of #tooltip and the   *)
(* inline placement written by updatePosition.                             *)
(*                                                                         *)
(* Lengths handed to the code (rectangles, offset, viewport) are whole     *)
(* pixels.  The code halves width/height differences, so every length it   *)
(* writes to this.style is kept here in HALF pixels: the style value       *)
(* '110px' is the number 220.                                              *)
(***************************************************************************)
EXTENDS Integers, Sequences, FiniteSets, TLC

VARIABLES
    parentNode,      \* this.parentNode: None while the tooltip is detached
    forId,           \* this.for ("" when unset)
    position,        \* this.position
    fitToVisibleBounds,
    offset,          \* this.offset
    _showing,        \* this._showing
    hiddenClass,     \* #tooltip carries the class "hidden"
    style,           \* this.style: left, top, right, bottom
    _target,         \* this._target
    boundGen,        \* which bind() produced _boundShow/_boundHide; 0: not bound yet
    listeners,       \* registered listeners of this tooltip: [node, type, fn]
    ownText,         \* this.textContent.trim() !== ''
    slotText,        \* some effective (distributed) child has non-blank text
    effectiveApi,    \* the element's prototype chain provides getEffectiveChildNodes
    offsetParent,    \* this.offsetParent is non-null
    geo,             \* the rectangles getBoundingClientRect returns, and the viewport
    lastOp,          \* the method of the class that ran last, and how it was entered
    trace,           \* the effects of the last operation, in program order
    error            \* the last operation threw

vars == <<parentNode, forId, position, fitToVisibleBounds, offset, _showing,
          hiddenClass, style, _target, boundGen, listeners, ownText, slotText,
          effectiveApi, offsetParent, geo, lastOp, trace, error>>

domVars == <<parentNode, forId, _target, boundGen, listeners, offsetParent>>
propVars == <<position, fitToVisibleBounds, offset>>
contentVars == <<ownText, slotText, effectiveApi>>
viewVars == <<_showing, hiddenClass, style>>

----------------------------------------------------------------------------
(* Bounds *)

\* connectedCallback runs at most MaxBind times in a behaviour
MaxBind == 2

\* the default value of the property offset
DefaultOffset == 14

----------------------------------------------------------------------------
(* The document *)

None == "none"

\* A and B are elements of the document with ids "a" and "b"; F is a shadow
\* root (a document fragment) whose host H is in the document; T is the tooltip.
Parents == {"A", "B", "F"}
Anchors == {"A", "B", "H"}
ForIds == {"", "a", "b", "zz"}

TargetEvents == {"mouseenter", "focus", "mouseleave", "blur", "tap"}

Positions == {"top", "bottom", "left", "right", "middle"}

\* parentNode.getRootNode()
getRootNode(p) == IF p = "F" THEN "F" ELSE "document"

\* ownerRoot.querySelector('#' + id)
querySelector(root, id) ==
    IF root = "document" /\ id = "a" THEN "A"
    ELSE IF root = "document" /\ id = "b" THEN "B"
    ELSE None

\* get target() falling back to the parent when the id matches nothing
target_fallsBackToParent(p, for) ==
    LET byId == IF for # "" THEN querySelector(getRootNode(p), for) ELSE None
    IN IF byId # None THEN byId
       ELSE IF p = "F" THEN "H" ELSE p

\* get target() with this.parentNode = p, an object (with parentNode null,
\* line 156 throws): the element the tooltip is anchored to
target(p, for) ==
    IF for # ""
    THEN querySelector(getRootNode(p), for)
    ELSE IF p = "F" THEN "H" ELSE p

----------------------------------------------------------------------------
(* Listeners *)

\* the function objects bind() returned in the gen-th connectedCallback
boundShow(gen) == <<"show", gen>>
boundHide(gen) == <<"hide", gen>>

Listener(n, t, f) == [node |-> n, type |-> t, fn |-> f]

\* the five registrations on the anchor and the tooltip's own one
TargetListeners(tgt, gen) ==
    { Listener(tgt, "mouseenter", boundShow(gen)),
      Listener(tgt, "focus", boundShow(gen)),
      Listener(tgt, "mouseleave", boundHide(gen)),
      Listener(tgt, "blur", boundHide(gen)),
      Listener(tgt, "tap", boundHide(gen)) }

OwnListeners(gen) == { Listener("T", "mouseenter", boundHide(gen)) }

\* _addListeners without the registration of 'tap'
_addListeners_noTap(L, tgt, gen) ==
    IF gen = 0 THEN L
    ELSE L \cup (IF tgt # None
                THEN TargetListeners(tgt, gen) \ {Listener(tgt, "tap", boundHide(gen))}
                ELSE {})
           \cup OwnListeners(gen)

\* _addListeners(): addEventListener ignores an undefined callback (gen = 0)
\* and a registration that is already there (a set)
_addListeners(L, tgt, gen) ==
    IF gen = 0 THEN L
    ELSE L \cup (IF tgt # None THEN TargetListeners(tgt, gen) ELSE {})
           \cup OwnListeners(gen)

\* _removeListeners(): removes the registrations of the CURRENT bound functions
_removeListeners(L, tgt, gen) ==
    (L \ (IF tgt # None THEN TargetListeners(tgt, gen) ELSE {})) \ OwnListeners(gen)

\* _findTarget() that registers the listeners only when the anchor changed
_findTarget_addOnlyOnChange(r, p, for, gen) ==
    LET removed == _removeListeners(r.listeners, r.target, gen) IN
    IF p = None
    THEN [listeners |-> removed, target |-> r.target, err |-> TRUE]
    ELSE LET t == target(p, for)
         IN [listeners |-> IF t = r.target THEN removed ELSE _addListeners(removed, t, gen),
             target |-> t, err |-> FALSE]

\* _findTarget() with this.parentNode = p and this.for = for, as a function of
\* r = [listeners, target] (the registrations and this._target):
\* with p null the getter throws after the listeners were removed and before
\* _target is assigned
_findTarget(r, p, for, gen) ==
    LET removed == _removeListeners(r.listeners, r.target, gen) IN
    IF p = None
    THEN [listeners |-> removed, target |-> r.target, err |-> TRUE]
    ELSE LET t == target(p, for)
         IN [listeners |-> _addListeners(removed, t, gen), target |-> t, err |-> FALSE]

----------------------------------------------------------------------------
(* Visibility and placement.  v is the tooltip's visual state:             *)
(* [showing, hidden, style, trace, err].                                   *)

View == [showing |-> _showing, hidden |-> hiddenClass, style |-> style,
         trace |-> <<>>, err |-> FALSE]

\* a number the code computed, or undefined / NaN
Num(n) == [def |-> TRUE, n |-> n]
Undefined == [def |-> FALSE, n |-> 0]

\* a declared value of this.style: none, 'auto', or a length in half pixels
Unset == [kind |-> "", n |-> 0]
Auto == [kind |-> "auto", n |-> 0]
Px(n) == [kind |-> "px", n |-> n]

Max(a, b) == IF a >= b THEN a ELSE b

\* targetRect.left - parentRect.left, targetRect.top - parentRect.top
targetLeft == geo.aL - geo.pL
targetTop == geo.aT - geo.pT

\* twice tooltipLeft / tooltipTop of the switch on this.position; no case
\* matches another value and the variable stays undefined
tooltipLeft2 ==
    CASE position = "top" -> Num(2 * targetLeft + (geo.aW - geo.tW))
      [] position = "bottom" -> Num(2 * targetLeft + (geo.aW - geo.tW))
      [] position = "left" -> Num(2 * (targetLeft - geo.tW - offset))
      [] position = "right" -> Num(2 * (targetLeft + geo.aW + offset))
      [] OTHER -> Undefined

\* tooltipTop with the offset left out below the anchor
tooltipTop2_noOffset ==
    CASE position = "top" -> Num(2 * (targetTop - geo.tH - offset))
      [] position = "bottom" -> Num(2 * (targetTop + geo.aH))
      [] position = "left" -> Num(2 * targetTop + (geo.aH - geo.tH))
      [] position = "right" -> Num(2 * targetTop + (geo.aH - geo.tH))
      [] OTHER -> Undefined

tooltipTop2 ==
    CASE position = "top" -> Num(2 * (targetTop - geo.tH - offset))
      [] position = "bottom" -> Num(2 * (targetTop + geo.aH + offset))
      [] position = "left" -> Num(2 * targetTop + (geo.aH - geo.tH))
      [] position = "right" -> Num(2 * targetTop + (geo.aH - geo.tH))
      [] OTHER -> Undefined

\* this.style.<side> = value + 'px': 'undefinedpx' and 'NaNpx' are no lengths
\* and the assignment leaves the declared value as it was
SetPx(old, value) == IF value.def THEN Px(value.n) ELSE old

\* Math.max(low, value): NaN for an undefined value
MathMax(low, value) == IF value.def THEN Num(Max(low, value.n)) ELSE Undefined

\* the fitToVisibleBounds branch with the top clamped like the left, at 0
fitStyle_topClampZero(s) ==
    LET overX == tooltipLeft2.def
                 /\ 2 * geo.pL + tooltipLeft2.n + 2 * geo.tW > 2 * geo.vw
        overY == tooltipTop2.def
                 /\ 2 * geo.pT + tooltipTop2.n + 2 * geo.tH > 2 * geo.vh
        s1 == IF overX
              THEN [s EXCEPT !.right = Px(0), !.left = Auto]
              ELSE [s EXCEPT !.left = SetPx(@, MathMax(0, tooltipLeft2)),
                             !.right = Auto]
    IN IF overY
       THEN [s1 EXCEPT !.bottom = Px(2 * geo.pH), !.top = Auto]
       ELSE [s1 EXCEPT !.top = SetPx(@, MathMax(0, tooltipTop2)),
                       !.bottom = Auto]

\* the fitToVisibleBounds branch, lines 279-296; a comparison with NaN is false
fitStyle(s) ==
    LET overX == tooltipLeft2.def
                 /\ 2 * geo.pL + tooltipLeft2.n + 2 * geo.tW > 2 * geo.vw
        overY == tooltipTop2.def
                 /\ 2 * geo.pT + tooltipTop2.n + 2 * geo.tH > 2 * geo.vh
        s1 == IF overX
              THEN [s EXCEPT !.right = Px(0), !.left = Auto]
              ELSE [s EXCEPT !.left = SetPx(@, MathMax(0, tooltipLeft2)),
                             !.right = Auto]
    IN IF overY
       THEN [s1 EXCEPT !.bottom = Px(2 * geo.pH), !.top = Auto]
       ELSE [s1 EXCEPT !.top = SetPx(@, MathMax(-2 * geo.pT, tooltipTop2)),
                       !.bottom = Auto]

\* the else branch, lines 297-300
plainStyle(s) ==
    [s EXCEPT !.left = SetPx(@, tooltipLeft2), !.top = SetPx(@, tooltipTop2)]

\* updatePosition() guarded by the offset parent alone
updatePosition_noTargetCheck(v) ==
    LET called == [v EXCEPT !.trace = Append(@, "updatePosition")] IN
    IF ~offsetParent
    THEN called
    ELSE [called EXCEPT !.style = IF fitToVisibleBounds THEN fitStyle(@)
                                  ELSE plainStyle(@)]

\* updatePosition() guarded by the target alone
updatePosition_noParentCheck(v) ==
    LET called == [v EXCEPT !.trace = Append(@, "updatePosition")] IN
    IF _target = None
    THEN called
    ELSE [called EXCEPT !.style = IF fitToVisibleBounds THEN fitStyle(@)
                                  ELSE plainStyle(@)]

updatePosition(v) ==
    LET called == [v EXCEPT !.trace = Append(@, "updatePosition")] IN
    IF _target = None \/ ~offsetParent
    THEN called
    ELSE [called EXCEPT !.style = IF fitToVisibleBounds THEN fitStyle(@)
                                  ELSE plainStyle(@)]

\* toggleClass('hidden', bool, this.$.tooltip).  this.$ is created when the
\* element becomes ready, at its first connectedCallback; before that the
\* argument this.$.tooltip throws a TypeError
toggleClass(bool, v) ==
    IF boundGen = 0
    THEN [v EXCEPT !.err = TRUE]
    ELSE [v EXCEPT !.hidden = bool,
                   !.trace = Append(@, IF bool THEN "add hidden" ELSE "remove hidden")]

\* lines 207-209 with the position recomputed before the flag and the class change
showTail_positionFirst(v) ==
    toggleClass(FALSE,
        [updatePosition(v) EXCEPT !.showing = TRUE,
                                  !.trace = Append(@, "_showing = true")])

\* lines 207-209; an exception in line 208 ends the call before line 209
showTail(v) ==
    LET unhidden == toggleClass(FALSE,
            [v EXCEPT !.showing = TRUE, !.trace = Append(@, "_showing = true")])
    IN IF boundGen = 0 THEN unhidden ELSE updatePosition(unhidden)

\* show() without the guard of lines 189-191
show_noGuard(v) ==
    IF ~ownText
    THEN IF ~effectiveApi THEN [v EXCEPT !.err = TRUE]
         ELSE IF ~slotText THEN v
         ELSE showTail(v)
    ELSE showTail(v)

\* show(): with blank text content the code calls this.getEffectiveChildNodes(),
\* which throws a TypeError when the element does not have that method
show(v) ==
    IF v.showing THEN v
    ELSE IF ~ownText
         THEN IF ~effectiveApi THEN [v EXCEPT !.err = TRUE]
              ELSE IF ~slotText THEN v
              ELSE showTail(v)
         ELSE showTail(v)

\* hide() that clears the flag and leaves the class of #tooltip alone
hide_keepsClass(v) ==
    IF ~v.showing THEN v
    ELSE [v EXCEPT !.showing = FALSE, !.trace = Append(@, "_showing = false")]

hide(v) ==
    IF ~v.showing THEN v
    ELSE toggleClass(TRUE,
        [v EXCEPT !.showing = FALSE, !.trace = Append(@, "_showing = false")])

\* an event calls every listener registered for it, in turn; an exception in
\* one listener is reported and the next one still runs
RECURSIVE CallEach(_, _, _)
CallEach(kind, n, v) ==
    IF n = 0 THEN v
    ELSE LET w == IF kind = "show" THEN show(v) ELSE hide(v)
         IN CallEach(kind, n - 1, [w EXCEPT !.err = v.err \/ w.err])

Registered(node, type) == { l \in listeners : l.node = node /\ l.type = type }

\* which method the listeners registered for the event call
handlerOf(node, type) ==
    LET hs == Registered(node, type) IN
    IF hs = {} THEN "none" ELSE (CHOOSE l \in hs : TRUE).fn[1]

dispatchEvent(node, type) ==
    LET hs == Registered(node, type) IN
    IF hs = {} THEN View
    ELSE CallEach((CHOOSE l \in hs : TRUE).fn[1], Cardinality(hs), View)

----------------------------------------------------------------------------
(* Lifecycle *)

Dom == [listeners |-> listeners, target |-> _target, err |-> FALSE]

\* connectedCallback() with this.parentNode = p.  The first
\* super.connectedCallback() makes the element ready and runs the observer of a
\* `for` that is set, _findTarget, while _boundShow and _boundHide are still
\* undefined; then the two are bound anew and _findTarget() runs.
connectedCallback(r, p, for, gen) ==
    LET r1 == IF gen = 0 /\ for # "" THEN _findTarget(r, p, for, 0) ELSE r
    IN _findTarget(r1, p, for, gen + 1)

\* disconnectCallback(): line 183 calls super.disconnectCallback, which no
\* superclass defines, so the call throws before _removeListeners() is reached
disconnectCallback(r) == [r EXCEPT !.err = TRUE]

----------------------------------------------------------------------------
(* Inputs *)

\* the scenario of the spec: anchor {100, 50, 80x20}, tooltip 60x24, offset
\* parent at (0, 0)
Scenario == [aL |-> 100, aT |-> 50, aW |-> 80, aH |-> 20, tW |-> 60, tH |-> 24,
             pL |-> 0, pT |-> 0, pW |-> 300, pH |-> 200, vw |-> 150, vh |-> 600]

NoStyle == [left |-> Unset, top |-> Unset, right |-> Unset, bottom |-> Unset]

----------------------------------------------------------------------------
(* Actions *)

ApplyView(v) ==
    /\ _showing' = v.showing
    /\ hiddenClass' = v.hidden
    /\ style' = v.style
    /\ trace' = v.trace
    /\ error' = v.err

ApplyDom(r) ==
    /\ listeners' = r.listeners
    /\ _target' = r.target
    /\ error' = r.err
    /\ trace' = <<>>

\* the state after construction: detached, hidden, nothing registered
Init ==
    /\ parentNode = None
    /\ forId = ""
    /\ position = "bottom"
    /\ fitToVisibleBounds = FALSE
    /\ offset = DefaultOffset
    /\ _showing = FALSE
    /\ hiddenClass = TRUE
    /\ style = NoStyle
    /\ _target = None
    /\ boundGen = 0
    /\ listeners = {}
    /\ ownText \in BOOLEAN
    /\ slotText \in (IF ownText THEN {FALSE} ELSE BOOLEAN)
    /\ effectiveApi \in BOOLEAN
    /\ offsetParent = FALSE
    /\ geo = Scenario
    /\ lastOp = <<"new">>
    /\ trace = <<>>
    /\ error = FALSE

\* the tooltip is inserted under p and the platform calls connectedCallback
Attach(p) ==
    /\ parentNode = None
    /\ boundGen < MaxBind
    /\ parentNode' = p
    /\ boundGen' = boundGen + 1
    /\ offsetParent' \in BOOLEAN
    /\ ApplyDom(connectedCallback(Dom, p, forId, boundGen))
    /\ lastOp' = <<"connectedCallback">>
    /\ UNCHANGED <<forId, propVars, contentVars, viewVars, geo>>

\* the tooltip is removed from its parent; the platform calls
\* disconnectedCallback, which this class does not define
Detach ==
    /\ parentNode # None
    /\ parentNode' = None
    /\ offsetParent' = FALSE
    /\ lastOp' = <<"disconnectedCallback">>
    /\ trace' = <<>>
    /\ error' = FALSE
    /\ UNCHANGED <<forId, _target, boundGen, listeners, propVars, contentVars,
                   viewVars, geo>>

\* a caller invokes the method disconnectCallback()
DisconnectCallbackCall ==
    /\ ApplyDom(disconnectCallback(Dom))
    /\ lastOp' = <<"disconnectCallback">>
    /\ UNCHANGED <<parentNode, forId, boundGen, offsetParent, propVars,
                   contentVars, viewVars, geo>>

\* this.for = id; once the element is ready a change runs the observer
SetFor(id) ==
    /\ id # forId
    /\ forId' = id
    /\ IF boundGen > 0
       THEN ApplyDom(_findTarget(Dom, parentNode, id, boundGen))
       ELSE /\ UNCHANGED <<listeners, _target>>
            /\ trace' = <<>>
            /\ error' = FALSE
    /\ lastOp' = <<"for">>
    /\ UNCHANGED <<parentNode, boundGen, offsetParent, propVars, contentVars,
                   viewVars, geo>>

\* an explicit re-resolution request
FindTargetCall ==
    /\ ApplyDom(_findTarget(Dom, parentNode, forId, boundGen))
    /\ lastOp' = <<"_findTarget">>
    /\ UNCHANGED <<parentNode, forId, boundGen, offsetParent, propVars,
                   contentVars, viewVars, geo>>

ShowCall ==
    /\ ApplyView(show(View))
    /\ lastOp' = <<"show">>
    /\ UNCHANGED <<domVars, propVars, contentVars, geo>>

HideCall ==
    /\ ApplyView(hide(View))
    /\ lastOp' = <<"hide">>
    /\ UNCHANGED <<domVars, propVars, contentVars, geo>>

UpdatePositionCall ==
    /\ ApplyView(updatePosition(View))
    /\ lastOp' = <<"updatePosition">>
    /\ UNCHANGED <<domVars, propVars, contentVars, geo>>

\* the browser dispatches an event of the given type on node
Event(node, type) ==
    /\ ApplyView(dispatchEvent(node, type))
    /\ lastOp' = <<"event", handlerOf(node, type)>>
    /\ UNCHANGED <<domVars, propVars, contentVars, geo>>

Next ==
    \/ \E p \in Parents : Attach(p)
    \/ Detach
    \/ DisconnectCallbackCall
    \/ \E id \in ForIds : SetFor(id)
    \/ FindTargetCall
    \/ ShowCall
    \/ HideCall
    \/ UpdatePositionCall
    \/ \E n \in Anchors, t \in TargetEvents : Event(n, t)
    \/ Event("T", "mouseenter")

Spec == Init /\ [][Next]_vars

----------------------------------------------------------------------------
(* Placement as a function of its inputs: the rectangles, the viewport,    *)
(* offset, position and fitToVisibleBounds are drawn when the element is   *)
(* created and the tooltip is attached under A and shown.                  *)

Offsets == {DefaultOffset, 0}

GeoInputs ==
    [aL : {100, 10}, aT : {50, 5}, aW : {80, 21}, aH : {20, 7},
     tW : {60}, tH : {24},
     pL : {0, -40}, pT : {0, 30}, pW : {300, 120}, pH : {200},
     vw : {150, 400}, vh : {100, 600}]

PlacementInit ==
    /\ parentNode = None
    /\ forId = ""
    /\ position \in Positions
    /\ fitToVisibleBounds \in BOOLEAN
    /\ offset \in Offsets
    /\ _showing = FALSE
    /\ hiddenClass = TRUE
    /\ style = NoStyle
    /\ _target = None
    /\ boundGen = 0
    /\ listeners = {}
    /\ ownText = TRUE
    /\ slotText = FALSE
    /\ effectiveApi = FALSE
    /\ offsetParent = FALSE
    /\ geo \in GeoInputs
    /\ lastOp = <<"new">>
    /\ trace = <<>>
    /\ error = FALSE

PlacementNext ==
    \/ Attach("A")
    \/ ShowCall
    \/ HideCall
    \/ UpdatePositionCall

PlacementSpec == PlacementInit /\ [][PlacementNext]_vars

----------------------------------------------------------------------------
(* Placement across changes of `position` and `fitToVisibleBounds`: the     *)
(* element is created with its defaults and non-blank text, and the two     *)
(* properties are set between attach, detach, show, hide and updatePosition. *)

\* this.position = p: the property has no observer, the value is stored
SetPosition(p) ==
    /\ position' = p
    /\ lastOp' = <<"position">>
    /\ trace' = <<>>
    /\ error' = FALSE
    /\ UNCHANGED <<domVars, fitToVisibleBounds, offset, contentVars, viewVars, geo>>

\* this.fitToVisibleBounds = b: no observer either
SetFitToVisibleBounds(b) ==
    /\ fitToVisibleBounds' = b
    /\ lastOp' = <<"fitToVisibleBounds">>
    /\ trace' = <<>>
    /\ error' = FALSE
    /\ UNCHANGED <<domVars, position, offset, contentVars, viewVars, geo>>

SideInit ==
    /\ parentNode = None
    /\ forId = ""
    /\ position = "bottom"
    /\ fitToVisibleBounds = FALSE
    /\ offset = DefaultOffset
    /\ _showing = FALSE
    /\ hiddenClass = TRUE
    /\ style = NoStyle
    /\ _target = None
    /\ boundGen = 0
    /\ listeners = {}
    /\ ownText = TRUE
    /\ slotText = FALSE
    /\ effectiveApi = FALSE
    /\ offsetParent = FALSE
    /\ geo = Scenario
    /\ lastOp = <<"new">>
    /\ trace = <<>>
    /\ error = FALSE

SideNext ==
    \/ Attach("A")
    \/ Detach
    \/ ShowCall
    \/ HideCall
    \/ UpdatePositionCall
    \/ \E p \in Positions : SetPosition(p)
    \/ \E b \in BOOLEAN : SetFitToVisibleBounds(b)

SideSpec == SideInit /\ [][SideNext]_vars

----------------------------------------------------------------------------
(* Properties *)

ShowEffects == <<"_showing = true", "remove hidden", "updatePosition">>
HideEffects == <<"_showing = false", "add hidden">>

\* the tooltip is attached and its last target resolution gave an element
AnchorResolved == boundGen > 0 /\ parentNode # None /\ _target # None

\* C1: when the tooltip is hidden, attached with a resolved anchor, and its
\* text content is not blank, a mouseenter or focus event on the anchor sets
\* _showing, removes the hidden class and then recomputes the position, once,
\* in that order, without an error.
C1_AnchorEventShows ==
    [][\A t \in {"mouseenter", "focus"} :
         (AnchorResolved /\ ~_showing /\ ownText /\ Event(_target, t))
         => /\ _showing'
            /\ ~hiddenClass'
            /\ trace' = ShowEffects
            /\ ~error']_vars

C1_Witness ==
    /\ lastOp = <<"event", "show">>
    /\ AnchorResolved
    /\ _showing
    /\ ~hiddenClass
    /\ trace = ShowEffects
    /\ style.left = Px(220)

\* C2: when the tooltip is showing and attached, a mouseleave, blur or tap
\* event on the resolved anchor, or a mouseenter event on the tooltip itself,
\* clears _showing and puts the hidden class back; left, top, right and
\* bottom stay exactly as they were.
C2_HideEvents ==
    [][/\ \A t \in {"mouseleave", "blur", "tap"} :
            (AnchorResolved /\ _showing /\ Event(_target, t))
            => (~_showing' /\ hiddenClass' /\ style' = style /\ trace' = HideEffects)
       /\ (boundGen > 0 /\ parentNode # None /\ _showing /\ Event("T", "mouseenter"))
            => (~_showing' /\ hiddenClass' /\ style' = style /\ trace' = HideEffects)
      ]_vars

C2_Witness ==
    /\ lastOp = <<"event", "hide">>
    /\ AnchorResolved
    /\ ~_showing
    /\ hiddenClass
    /\ trace = HideEffects
    /\ style.left = Px(220)
    /\ style.top = Px(168)

\* C4: show() while showing and hide() while hidden change nothing: the flag,
\* the hidden class, the placement and the registered listeners stay as they
\* were, no effect runs (no position recomputation) and no error is raised.
C4_ShowHideIdempotent ==
    [][/\ (_showing /\ ShowCall)
            => (UNCHANGED <<viewVars, listeners, _target>> /\ trace' = <<>> /\ ~error')
       /\ (~_showing /\ HideCall)
            => (UNCHANGED <<viewVars, listeners, _target>> /\ trace' = <<>> /\ ~error')
      ]_vars

C4_Witness ==
    /\ lastOp = <<"show">>
    /\ _showing
    /\ ~hiddenClass
    /\ trace = <<>>
    /\ style.left = Px(220)

\* C3: with blank text content and only blank effective children, show()
\* called while hidden changes nothing and raises no error; with a non-blank
\* effective child the show is not suppressed.
C3_BlankContentSuppressesShow ==
    [][(~_showing /\ ~ownText /\ ShowCall)
         => IF slotText
            THEN _showing' /\ ~hiddenClass' /\ ~error'
            ELSE UNCHANGED viewVars /\ trace' = <<>> /\ ~error']_vars

\* C5: once the tooltip is detached, none of its listeners is registered any
\* more, on the anchor or on the tooltip.
C5_DetachRemovesListeners ==
    lastOp = <<"disconnectedCallback">> => listeners = {}

\* C6: no element other than the current anchor carries a listener of the
\* tooltip, and a resolved anchor carries a listener for each of the five
\* events.
C6_ListenersOnCurrentAnchorOnly ==
    /\ \A l \in listeners : l.node = "T" \/ l.node = _target
    /\ AnchorResolved => \A t \in TargetEvents : Registered(_target, t) # {}

----------------------------------------------------------------------------
(* Placement properties (PlacementSpec).  Expected values are in half      *)
(* pixels, like the style.                                                 *)

Sides == {"top", "bottom", "left", "right"}

\* the last operation ran updatePosition past its guard
Placed ==
    /\ Len(trace) > 0
    /\ trace[Len(trace)] = "updatePosition"
    /\ _target # None
    /\ offsetParent

\* the per-side formulas of the specification: left from the horizontal
\* inputs, top from the vertical ones
FormulaLeft2(side, aL, aW, tW, pL, off) ==
    CASE side \in {"top", "bottom"} -> 2 * (aL - pL) + (aW - tW)
      [] side = "left" -> 2 * ((aL - pL) - tW - off)
      [] side = "right" -> 2 * ((aL - pL) + aW + off)

FormulaTop2(side, aT, aH, tH, pT, off) ==
    CASE side = "top" -> 2 * ((aT - pT) - tH - off)
      [] side = "bottom" -> 2 * ((aT - pT) + aH + off)
      [] side \in {"left", "right"} -> 2 * (aT - pT) + (aH - tH)

WantLeft2 == FormulaLeft2(position, geo.aL, geo.aW, geo.tW, geo.pL, offset)
WantTop2 == FormulaTop2(position, geo.aT, geo.aH, geo.tH, geo.pT, offset)

ScenarioRects ==
    /\ geo.aL = 100 /\ geo.aT = 50 /\ geo.aW = 80 /\ geo.aH = 20
    /\ geo.tW = 60 /\ geo.tH = 24 /\ geo.pL = 0 /\ geo.pT = 0
    /\ position = "bottom" /\ offset = 14

\* C7: with fitToVisibleBounds false, a resolved anchor and an offset parent,
\* updatePosition sets left and top to the per-side formulas, for each of the
\* four sides; in the scenario of the specification left is 110px, top 84px.
C7_PlainPlacement ==
    (Placed /\ ~fitToVisibleBounds /\ position \in Sides)
    => /\ style.left = Px(WantLeft2)
       /\ style.top = Px(WantTop2)
       /\ ScenarioRects => (style.left = Px(220) /\ style.top = Px(168))

C7_Witness ==
    /\ Placed
    /\ ~fitToVisibleBounds
    /\ ScenarioRects
    /\ style.left = Px(220)
    /\ style.top = Px(168)

\* the clamping rule of each axis, from the inputs of that axis alone
ClampX(left2, tW, pL, vw) ==
    IF 2 * pL + left2 + 2 * tW > 2 * vw
    THEN [left |-> Auto, right |-> Px(0)]
    ELSE [left |-> Px(Max(0, left2)), right |-> Auto]

ClampY(top2, tH, pT, pH, vh) ==
    IF 2 * pT + top2 + 2 * tH > 2 * vh
    THEN [top |-> Auto, bottom |-> Px(2 * pH)]
    ELSE [top |-> Px(Max(-2 * pT, top2)), bottom |-> Auto]

\* C8: with fitToVisibleBounds true, left/right are what the horizontal rule
\* gives from the horizontal inputs and top/bottom what the vertical rule
\* gives from the vertical inputs; a left of 110px with width 60, parent left 0
\* and viewport width 150 gives right = 0.
C8_FitClampsEachAxis ==
    (Placed /\ fitToVisibleBounds /\ position \in Sides)
    => LET x == ClampX(WantLeft2, geo.tW, geo.pL, geo.vw)
           y == ClampY(WantTop2, geo.tH, geo.pT, geo.pH, geo.vh)
       IN /\ style.left = x.left /\ style.right = x.right
          /\ style.top = y.top /\ style.bottom = y.bottom
          /\ (WantLeft2 = 220 /\ geo.tW = 60 /\ geo.pL = 0 /\ geo.vw = 150)
               => (style.right = Px(0) /\ style.left = Auto)

C8_Witness ==
    /\ Placed
    /\ fitToVisibleBounds
    /\ ScenarioRects
    /\ geo.vw = 150
    /\ geo.vh = 600
    /\ style.right = Px(0)
    /\ style.left = Auto
    /\ style.top = Px(168)
    /\ style.bottom = Auto

\* the rectangle the tooltip occupies in the viewport under the applied
\* placement, in half pixels: left/top count from the offset parent's left/top
\* edge, right/bottom from its right/bottom edge
BoxLeft2 ==
    IF style.left.kind = "px" THEN 2 * geo.pL + style.left.n
    ELSE 2 * (geo.pL + geo.pW) - style.right.n - 2 * geo.tW

BoxTop2 ==
    IF style.top.kind = "px" THEN 2 * geo.pT + style.top.n
    ELSE 2 * (geo.pT + geo.pH) - style.bottom.n - 2 * geo.tH

\* C9: with fitToVisibleBounds true the placed tooltip lies inside the
\* viewport [0, innerWidth] x [0, innerHeight].
C9_FitKeepsTooltipOnScreen ==
    (Placed /\ fitToVisibleBounds /\ position \in Sides)
    => /\ BoxLeft2 >= 0
       /\ BoxLeft2 + 2 * geo.tW <= 2 * geo.vw
       /\ BoxTop2 >= 0
       /\ BoxTop2 + 2 * geo.tH <= 2 * geo.vh

----------------------------------------------------------------------------

\* the last target resolution gave no element
NoAnchor == boundGen > 0 /\ _target = None

\* C10 as stated: without an anchor show(), hide() and updatePosition() leave
\* the flag, the hidden class and the placement as they were and raise no error
\* (stated for a tooltip whose text content is not blank).
C10_NoAnchorAllNoOps ==
    [][(NoAnchor /\ ownText /\ (ShowCall \/ HideCall \/ UpdatePositionCall))
         => (UNCHANGED viewVars /\ ~error')]_vars

\* C10 amended: without an anchor show(), hide() and updatePosition() leave
\* the placement as it was; updatePosition() changes nothing at all, and it
\* and hide() raise no error; show() and hide() still switch the flag and the
\* hidden class (show() when the flag is clear and the text content is not
\* blank).
C10_NoAnchorKeepsPlacement ==
    [][NoAnchor
         => /\ (ShowCall \/ HideCall \/ UpdatePositionCall) => style' = style
            /\ UpdatePositionCall => (UNCHANGED viewVars /\ ~error')
            /\ HideCall => (~_showing' /\ hiddenClass' /\ ~error')
            /\ (ShowCall /\ ~_showing /\ ownText)
                 => (_showing' /\ ~hiddenClass' /\ ~error')
      ]_vars

C10_Witness ==
    /\ NoAnchor
    /\ parentNode # None
    /\ offsetParent
    /\ lastOp = <<"show">>
    /\ trace = ShowEffects
    /\ _showing
    /\ style = NoStyle

----------------------------------------------------------------------------
(* Target resolution *)

\* the last operation was a re-resolution: the observer of `for` or a call
Reresolved == boundGen > 0 /\ lastOp \in {<<"for">>, <<"_findTarget">>}

\* `for` names an id the containing root does not hold, or there is no parent
NothingToResolve ==
    \/ parentNode = None
    \/ forId # "" /\ querySelector(getRootNode(parentNode), forId) = None

\* C11: a re-resolution with an absent id or without a structural parent
\* raises no error and leaves no anchor and no listener on any anchor.
C11_ResolutionNeverFails ==
    (Reresolved /\ NothingToResolve)
    => /\ ~error
       /\ _target = None
       /\ \A l \in listeners : l.node = "T"

\* C12: changing `for` from "a" to "b" on a tooltip attached in the document
\* and anchored to A leaves no listener of the tooltip on A and registers the
\* five listeners on B, so that events on A no longer show or hide the tooltip.
C12_ForSwitchMovesListeners ==
    [][(boundGen > 0 /\ parentNode \in {"A", "B"} /\ forId = "a" /\ _target = "A"
          /\ SetFor("b"))
         => /\ _target' = "B"
            /\ \A l \in listeners' : l.node # "A"
            /\ TargetListeners("B", boundGen) \subseteq listeners']_vars

----------------------------------------------------------------------------
(* Visibility *)

\* what the element renders: #tooltip is its only box, and with the class
\* hidden it is display: none whatever the inline placement of the host is
Rendered == [shown |-> ~hiddenClass, at |-> IF hiddenClass THEN NoStyle ELSE style]

HiddenLook == [shown |-> FALSE, at |-> NoStyle]

C14_TargetResolution ==
    (boundGen > 0 /\ parentNode # None)
    => _target =
         IF forId # ""
         THEN IF parentNode = "F" THEN None
              ELSE IF forId = "a" THEN "A"
              ELSE IF forId = "b" THEN "B"
              ELSE None
         ELSE IF parentNode = "F" THEN "H" ELSE parentNode

C14_Witness ==
    /\ lastOp = <<"for">>
    /\ ~error
    /\ parentNode = "F"
    /\ forId = ""
    /\ _target = "H"
    /\ TargetListeners("H", boundGen) \subseteq listeners

----------------------------------------------------------------------------
(* Listener registrations *)

\* C15: each event type has at most one registered handler of the tooltip on
\* any element, and the tooltip has at most one own mouseenter handler.
C15_NoDuplicateListeners ==
    /\ \A n \in Anchors, t \in TargetEvents : Cardinality(Registered(n, t)) <= 1
    /\ Cardinality(Registered("T", "mouseenter")) <= 1

\* C16: _findTarget() called on an attached tooltip whose anchor stays the
\* same leaves the registered listeners, on the anchor and on the tooltip,
\* exactly as they were, and raises no error; so does a second call.
C16_FindTargetIdempotent ==
    [][(boundGen > 0 /\ parentNode # None /\ FindTargetCall /\ _target' = _target)
         => (listeners' = listeners /\ ~error')]_vars

C16_Witness ==
    /\ lastOp = <<"_findTarget">>
    /\ ~error
    /\ AnchorResolved
    /\ listeners = TargetListeners(_target, boundGen) \cup OwnListeners(boundGen)

----------------------------------------------------------------------------
(* Immediate transitions *)

\* C17: on an attached tooltip with a resolved anchor and non-blank text, the
\* visibility after an event depends on that event alone, whatever the state
\* before it: mouseenter and focus on the anchor leave it showing; mouseleave,
\* blur and tap on the anchor and mouseenter on the tooltip leave it hidden.
\* The handlers run inside the event step, nothing is queued or delayed.
C17_LastEventDecides ==
    [][(AnchorResolved /\ ownText)
         => /\ \A t \in {"mouseenter", "focus"} :
                 Event(_target, t) => (_showing' /\ ~hiddenClass' /\ ~error')
            /\ \A t \in {"mouseleave", "blur", "tap"} :
                 Event(_target, t) => (~_showing' /\ hiddenClass' /\ ~error')
            /\ Event("T", "mouseenter") => (~_showing' /\ hiddenClass' /\ ~error')]_vars

----------------------------------------------------------------------------
(* Degenerate placement inputs *)

\* C18: with `position` set to a value other than top, bottom, left and right,
\* updatePosition (called directly or by show()) assigns no new left, top,
\* right or bottom, whether fitToVisibleBounds is set or not: the placement
\* applied before stays as it was.
C18_UnknownPositionKeepsPlacement ==
    [][(position \notin Sides /\ (UpdatePositionCall \/ ShowCall)) => style' = style]_vars

\* C19: when the anchor is unresolved or the tooltip has no offset parent,
\* updatePosition(), called directly or by show(), places nothing: left, top,
\* right and bottom keep the values they had.
C19_DegenerateKeepsPlacement ==
    [][((_target = None \/ ~offsetParent) /\ (UpdatePositionCall \/ ShowCall))
         => style' = style]_vars

\* updatePosition() on a detached tooltip that was placed while attached
C19_Witness ==
    /\ lastOp = <<"updatePosition">>
    /\ trace = <<"updatePosition">>
    /\ _target # None
    /\ ~offsetParent
    /\ style.left = Px(220)
    /\ style.top = Px(168)

----------------------------------------------------------------------------
(* The flag and the box *)

OtherOps ==
    {<<"updatePosition">>, <<"connectedCallback">>, <<"disconnectedCallback">>,
     <<"disconnectCallback">>, <<"for">>, <<"_findTarget">>}

\* C20: _showing is true exactly when #tooltip does not carry the hidden
\* class, in every reachable state; and updatePosition(), attach, detach and
\* target re-resolution change neither the flag nor the class.
C20_FlagMatchesBox ==
    /\ [](_showing <=> ~hiddenClass)
    /\ [][lastOp' \in OtherOps => UNCHANGED <<_showing, hiddenClass>>]_vars

====
